---- MODULE Spec2Model ----
(***************************************************************************)
(* Model of sage.py: BlackDuckSage, the resumable analysis engine.         *)
(*                                                                         *)
(* A behaviour is one analysis of one hub: a process run in mode "new"     *)
(* followed by runs in mode "resume".  Each run constructs the engine,     *)
(* calls analyze() and ends when analyze() returns or an exception leaves  *)
(* it.  The main path is cut at the inventory calls, the classifiers and   *)
(* the ledger updates; SIGINT / SIGTERM may arrive between any two of      *)
(* these steps and while an inventory call is in flight.  Inventory calls  *)
(* and checkpoint writes may raise.  Variables of the last group record    *)
(* the history of the run for the properties; no action reads them.        *)
(*                                                                         *)
(* Spec is the specification of these behaviours.  SpecRT is the           *)
(* checkpoint on its own: _write_results applied to states drawn from      *)
(* bounded sets of values, followed by the construction of a resume        *)
(* engine.                                                                 *)
(***************************************************************************)
EXTENDS Integers, Sequences, FiniteSets, TLC

(***************************************************************************)
(* Bounds of the model.                                                    *)
(***************************************************************************)
\* engine constructions (process runs) in a behaviour
MaxRuns == 2
\* signals delivered, calls and writes that raise, and project listings
\* slower than the limit, in a behaviour
MaxEvents == 2

(***************************************************************************)
(* Engine configuration (keyword arguments of __init__; the runs of the     *)
(* model pass thresholds smaller than the defaults 20 and 10).             *)
(***************************************************************************)
max_versions_per_project == 2
max_scans_per_version == 2

COMMON_ATTRIBUTES ==
  {"name", "versionName", "createdAt", "createdBy", "distribution",
   "phase", "scanSize", "settingUpdatedAt", "updatedAt", "updatedBy"}

EmptyDict == <<>>

(***************************************************************************)
(* The hub: REST objects and paged results.                                *)
(***************************************************************************)
ProjectObj(n) ==
  [name |-> n, createdBy |-> "sysadmin", _meta |-> [href |-> "/projects/" \o n]]

VersionObj(p, v, ph) ==
  [versionName |-> v, phase |-> ph, nickname |-> "",
   _meta |-> [href |-> "/projects/" \o p \o "/versions/" \o v]]

ScanObj(n) ==
  [name |-> n, scanSize |-> 1, _meta |-> [href |-> "/codelocations/" \o n]]

Page(s) == [totalCount |-> Len(s), items |-> s]

NoItemsPage == [totalCount |-> 0]

ManyVersions(p) ==
  [i \in 1..(max_versions_per_project + 1) |->
     VersionObj(p, "v" \o ToString(i), IF i = 1 THEN "RELEASED" ELSE "DEVELOPMENT")]

ManyScans ==
  [i \in 1..(max_scans_per_version + 1) |->
     ScanObj(IF i = 1 THEN "foo-scan" ELSE IF i = 2 THEN "foo-bom" ELSE "other")]

FullScans == [i \in 1..max_scans_per_version |-> ScanObj("s" \o ToString(i) \o " scan")]

\* alpha: two versions (at the threshold), one over the scan threshold and
\* one without scans; beta: a paged result without items.
HubA ==
  [urlbase  |-> "https://hub-a",
   projects |-> Page(<<ProjectObj("alpha"), ProjectObj("beta")>>),
   versions |-> [alpha |-> Page(<<VersionObj("alpha", "1.0", "RELEASED"),
                                  VersionObj("alpha", "2.0", "DEVELOPMENT")>>),
                 beta  |-> NoItemsPage],
   scans    |-> (<<"alpha", "1.0">> :> Page(ManyScans)) @@
                (<<"alpha", "2.0">> :> Page(<<>>)),
   unmapped |-> Page(<<ScanObj("orphan-scan")>>)]

\* delta: more versions than the threshold, the first with a scans result
\* without items, the second at the scan threshold, the others over it;
\* eps: an empty version list.
HubB ==
  [urlbase  |-> "https://hub-b",
   projects |-> Page(<<ProjectObj("delta"), ProjectObj("eps")>>),
   versions |-> [delta |-> Page(ManyVersions("delta")),
                 eps   |-> Page(<<>>)],
   scans    |-> [k \in {<<"delta", "v" \o ToString(i)>> : i \in 1..(max_versions_per_project + 1)} |->
                   IF k[2] = "v1" THEN NoItemsPage
                   ELSE IF k[2] = "v2" THEN Page(FullScans)
                   ELSE Page(ManyScans)],
   unmapped |-> Page(<<>>)]

\* Project and version names that contain the ':' separator.
HubC ==
  [urlbase  |-> "https://hub-c",
   projects |-> Page(<<ProjectObj("a"), ProjectObj("a:b")>>),
   versions |-> ("a"   :> Page(<<VersionObj("a", "b:c", "RELEASED")>>)) @@
                ("a:b" :> Page(<<VersionObj("a:b", "c", "RELEASED")>>)),
   scans    |-> (<<"a", "b:c">> :> Page(<<ScanObj("x-scan")>>)) @@
                (<<"a:b", "c">> :> Page(<<>>)),
   unmapped |-> Page(<<>>)]

Hubs == {HubA, HubB, HubC}

(***************************************************************************)
(* Pure helpers.                                                           *)
(***************************************************************************)
\* items of a paged result; a result without the field counts as empty
Items(page) == IF page # EmptyDict /\ "items" \in DOMAIN page THEN page.items ELSE <<>>

\* str.endswith
endswith(s, suffix) ==
  /\ Len(s) >= Len(suffix)
  /\ SubSeq(s, Len(s) - Len(suffix) + 1, Len(s)) = suffix

_copy_common_attributes(obj, kwargs) ==
  LET base == [k \in (DOMAIN obj \cap COMMON_ATTRIBUTES) |-> obj[k]]
      url  == [url |-> obj._meta.href]
  IN  kwargs @@ url @@ base

\* "{}:{}".format(project_name, version_name)
version_key(project_name, version_name) == project_name \o ":" \o version_name

\* " ".join(message.split()); the templates hold runs of blanks where the
\* source has line breaks and indentation
RECURSIVE Collapse(_, _, _)
Collapse(msg, lo, hi) ==
  IF lo > hi THEN ""
  ELSE IF lo = hi THEN (IF SubSeq(msg, lo, lo) = " " THEN "" ELSE SubSeq(msg, lo, lo))
  ELSE LET mid   == (lo + hi) \div 2
           left  == Collapse(msg, lo, mid)
           right == Collapse(msg, mid + 1, hi)
       IN  IF left = "" THEN right
           ELSE IF right = "" THEN left
           ELSE IF SubSeq(msg, mid, mid) = " " \/ SubSeq(msg, mid + 1, mid + 1) = " "
           THEN left \o " " \o right
           ELSE left \o right

_remove_white_space(message) == Collapse(message, 1, Len(message))

Range(s) == {s[i] : i \in DOMAIN s}

\* list(a_set): the elements in some order
ListsOf(S) == {s \in [1..Cardinality(S) -> S] : Range(s) = S}

IsPrefix(s, t) == Len(s) <= Len(t) /\ SubSeq(t, 1, Len(s)) = s

(***************************************************************************)
(* State.                                                                  *)
(***************************************************************************)
VARIABLES
  hub,               \* the server the runs talk to (fixed in a behaviour)
  run,               \* number of engine constructions so far
  mode,              \* kwargs "mode" of the current engine
  pc,                \* position of the main path
  exc,               \* uncaught exception that ended the run, or "none"
  other_issues, suspect_projects, suspect_versions,
  unmapped_scans, reviewed_projects, reviewed_versions,
  file,              \* content of self.file
  pidx, vidx,        \* positions of the two for loops
  events,            \* signals, raised calls and writes, slow listings so far
  \* history of the current run
  handled,           \* _signal_handler has run to its raise
  handledAt,         \* position of the main path when the signal was delivered
  writeFailed,       \* a checkpoint write failed
  start,             \* AnalysisState after construction
  analysed,          \* projects analyze_project was called on
  classified,        \* <<project, version>> the version classifier ran on
  skippedV,          \* <<project, version>> skipped, key found in the ledger
  failedP,           \* projects whose versions fetch raised
  failedS,           \* <<project, version>> whose scans fetch raised
  prev,              \* how the previous run ended
  unmappedCalls,     \* calls of get_unmapped_scans in this run
  signals            \* runs of _signal_handler in this run

state_vars == <<other_issues, suspect_projects, suspect_versions,
                unmapped_scans, reviewed_projects, reviewed_versions>>

hist_vars == <<handled, handledAt, writeFailed, start, analysed, classified,
               skippedV, failedP, failedS, prev, unmappedCalls, signals>>

vars == <<hub, run, mode, pc, exc, other_issues, suspect_projects, suspect_versions,
          unmapped_scans, reviewed_projects, reviewed_versions, file, pidx, vidx,
          events, handled, handledAt, writeFailed, start, analysed, classified,
          skippedV, failedP, failedS, prev, unmappedCalls, signals>>

AnalysisState ==
  [other_issues      |-> other_issues,
   unmapped_scans    |-> unmapped_scans,
   suspect_projects  |-> suspect_projects,
   suspect_versions  |-> suspect_versions,
   reviewed_projects |-> reviewed_projects,
   reviewed_versions |-> reviewed_versions]

EmptyState ==
  [other_issues      |-> <<>>,
   unmapped_scans    |-> EmptyDict,
   suspect_projects  |-> <<>>,
   suspect_versions  |-> <<>>,
   reviewed_projects |-> {},
   reviewed_versions |-> {}]

NoFile == [kind |-> "absent"]
TruncatedFile == [kind |-> "truncated"]

\* Status of the engine (spec 4.3), read off the position and the exception.
Status ==
  IF pc = "idle" THEN "IDLE"
  ELSE IF pc # "exit" THEN "RUNNING"
  ELSE IF exc = "none" THEN "COMPLETED"
  ELSE IF exc = "Interruped" THEN "INTERRUPTED"
  ELSE "ABORTED"

NoHistory ==
  [status |-> "IDLE", mode |-> "none", at |-> "none", failedS |-> {}, state |-> EmptyState]

Init ==
  /\ hub \in Hubs
  /\ run = 0
  /\ mode = "none"
  /\ pc = "idle"
  /\ exc = "none"
  /\ other_issues = <<>>
  /\ suspect_projects = <<>>
  /\ suspect_versions = <<>>
  /\ unmapped_scans = EmptyDict
  /\ reviewed_projects = {}
  /\ reviewed_versions = {}
  /\ file = NoFile
  /\ pidx = 0
  /\ vidx = 0
  /\ events = 0
  /\ handled = FALSE
  /\ handledAt = "none"
  /\ writeFailed = FALSE
  /\ start = EmptyState
  /\ analysed = {}
  /\ classified = {}
  /\ skippedV = {}
  /\ failedP = {}
  /\ failedS = {}
  /\ prev = NoHistory
  /\ unmappedCalls = 0
  /\ signals = 0

(***************************************************************************)
(* Inventory client (self.hub).                                            *)
(***************************************************************************)
get_projects == hub.projects
get_project_versions(project) == hub.versions[project.name]
get_version_codelocations(project_name, version) ==
  hub.scans[<<project_name, version.versionName>>]
get_codelocations_unmapped == hub.unmapped
get_urlbase == hub.urlbase

\* locals of analyze / analyze_project / analyze_version at the current position
project == get_projects.items[pidx]
version_objs == Items(get_project_versions(project))
version == version_objs[vidx]
scan_objs == Items(get_version_codelocations(project.name, version))

(***************************************************************************)
(* Checkpoint store.                                                       *)
(***************************************************************************)
\* (mutant) reviewed_versions is written from the list of reviewed_projects
analysis_results_OneLedger(rp, rv) ==
  [kind |-> "json",
   hub_url           |-> get_urlbase,
   other_issues      |-> other_issues,
   unmapped_scans    |-> unmapped_scans,
   suspect_projects  |-> suspect_projects,
   suspect_versions  |-> suspect_versions,
   reviewed_projects |-> rp,
   reviewed_versions |-> rp]

\* json.dumps(analysis_results): the two sets go out as lists, in the
\* orders rp and rv
analysis_results(rp, rv) ==
  [kind |-> "json",
   hub_url           |-> get_urlbase,
   other_issues      |-> other_issues,
   unmapped_scans    |-> unmapped_scans,
   suspect_projects  |-> suspect_projects,
   suspect_versions  |-> suspect_versions,
   reviewed_projects |-> rp,
   reviewed_versions |-> rv]

\* _write_results: ok, or open() raised (file untouched), or the write
\* raised after open() truncated the file
_write_results(outcome) ==
  CASE outcome = "ok" ->
         \E rp \in ListsOf(reviewed_projects), rv \in ListsOf(reviewed_versions) :
           file' = analysis_results(rp, rv)
    [] outcome = "open_failed"  -> file' = file
    [] outcome = "write_failed" -> file' = TruncatedFile

WriteOutcomes == {"ok", "open_failed", "write_failed"}

\* (mutant) the ledger of projects is not restored
LoadedState_DropsLedger(f) ==
  [other_issues      |-> f.other_issues,
   unmapped_scans    |-> f.unmapped_scans,
   suspect_projects  |-> f.suspect_projects,
   suspect_versions  |-> f.suspect_versions,
   reviewed_projects |-> {},
   reviewed_versions |-> Range(f.reviewed_versions)]

\* the else branch of __init__: json.load and set(...)
LoadedState(f) ==
  [other_issues      |-> f.other_issues,
   unmapped_scans    |-> f.unmapped_scans,
   suspect_projects  |-> f.suspect_projects,
   suspect_versions  |-> f.suspect_versions,
   reviewed_projects |-> Range(f.reviewed_projects),
   reviewed_versions |-> Range(f.reviewed_versions)]

(***************************************************************************)
(* Messages.                                                               *)
(***************************************************************************)
SlowListingMessage(elapsed, limit) ==
  _remove_white_space(
    "It took " \o ToString(elapsed) \o " seconds to retrieve all the project info which is greater      than the recommended max of " \o ToString(limit) \o " seconds")

ZeroScansMessage(project_name, version_name) ==
  "Project " \o project_name \o ", version " \o version_name \o
  " has 0 scans. Should it be removed?"

ManyScansMessage(project_name, version_name, num_scans) ==
  _remove_white_space(
    "Project " \o project_name \o ", version " \o version_name \o " has " \o
    ToString(num_scans) \o " scans which is greater than       the maximum recommended versions of " \o
    ToString(max_versions_per_project) \o
    ". Review the scans to make sure there are not      redundant scans all mapped to this project version.")

ZeroVersionsMessage(project_name) ==
  "Project " \o project_name \o " has 0 versions. Should it be removed?"

ManyVersionsMessage(project_name, versions) ==
  LET released_versions == {i \in DOMAIN versions : versions[i].phase = "RELEASED"}
      archived_versions == {i \in DOMAIN versions : versions[i].phase = "ARCHIVED"}
  IN  _remove_white_space(
        "Project " \o project_name \o " has " \o ToString(Len(versions)) \o
        " versions which is greater than the recommend maximum of " \o
        ToString(max_versions_per_project) \o "." \o
        (IF released_versions = {} THEN "  There are 0 versions that have been released." ELSE "") \o
        (IF archived_versions = {} THEN "  There are 0 versions that have been archived." ELSE "") \o
        "You should review these versions and remove extraneous ones, and their scans,      to reclaim space and reduce clutter.")

UnmappedMessage == "Unmapped scans represent scanning data that is not mapped to any project-version, and hence, they are potentially consuming space that should be reclaimed."

(***************************************************************************)
(* Actions.                                                                *)
(***************************************************************************)
max_time_to_retrieve_projects == 60

\* elapsed times of the project listing the model draws from
ElapsedValues == {max_time_to_retrieve_projects, max_time_to_retrieve_projects + 1}

Running == pc \notin {"idle", "exit"}

\* this step takes one of the events the behaviour is allowed, or none
Event(taken) ==
  IF taken THEN events < MaxEvents /\ events' = events + 1 ELSE events' = events

\* __init__ of a new process, followed by the call of analyze()
Construct(m) ==
  /\ pc \in {"idle", "exit"}
  /\ run < MaxRuns
  /\ (m = "new") <=> (run = 0)
  /\ run' = run + 1
  /\ mode' = m
  /\ LET loadable == (m = "resume") => (file.kind = "json")
         s == IF m = "resume" /\ loadable THEN LoadedState(file) ELSE EmptyState
     IN  /\ other_issues' = s.other_issues
         /\ unmapped_scans' = s.unmapped_scans
         /\ suspect_projects' = s.suspect_projects
         /\ suspect_versions' = s.suspect_versions
         /\ reviewed_projects' = s.reviewed_projects
         /\ reviewed_versions' = s.reviewed_versions
         /\ start' = s
         /\ pc' = IF loadable THEN "get_projects" ELSE "exit"
         /\ exc' = IF loadable THEN "none" ELSE "load"
  /\ prev' = [status |-> Status, mode |-> mode, at |-> handledAt, failedS |-> failedS,
              state |-> AnalysisState]
  /\ pidx' = 0
  /\ vidx' = 0
  /\ handled' = FALSE
  /\ handledAt' = "none"
  /\ writeFailed' = FALSE
  /\ analysed' = {}
  /\ classified' = {}
  /\ skippedV' = {}
  /\ failedP' = {}
  /\ failedS' = {}
  /\ unmappedCalls' = 0
  /\ signals' = 0
  /\ UNCHANGED <<hub, file, events>>

\* analyze, lines 210-224: the project listing returns or raises
GetProjects(ok, elapsed) ==
  /\ pc = "get_projects"
  /\ ok => elapsed \in ElapsedValues
  /\ ~ok => elapsed = 0
  /\ Event(~ok \/ elapsed > max_time_to_retrieve_projects)
  /\ IF ok
     THEN /\ other_issues' =
               IF elapsed > max_time_to_retrieve_projects
               THEN Append(other_issues, SlowListingMessage(elapsed, max_time_to_retrieve_projects))
               ELSE other_issues
          /\ pc' = "check_unmapped"
          /\ exc' = exc
     ELSE /\ pc' = "exit"
          /\ exc' = "fetch"
          /\ UNCHANGED other_issues
  /\ UNCHANGED <<hub, run, mode, suspect_projects, suspect_versions, unmapped_scans,
                 reviewed_projects, reviewed_versions, file, pidx, vidx>>
  /\ UNCHANGED hist_vars

\* (mutant) line 226 without the test: the listing is fetched in every run
CheckUnmapped_Always ==
  /\ pc = "check_unmapped"
  /\ pc' = "get_unmapped_scans"
  /\ pidx' = pidx
  /\ UNCHANGED <<hub, run, mode, exc, file, vidx, events>>
  /\ UNCHANGED state_vars
  /\ UNCHANGED hist_vars

\* analyze, line 226
CheckUnmapped ==
  /\ pc = "check_unmapped"
  /\ IF unmapped_scans = EmptyDict
     THEN pc' = "get_unmapped_scans" /\ pidx' = pidx
     ELSE pc' = "for_project" /\ pidx' = 1
  /\ UNCHANGED <<hub, run, mode, exc, file, vidx, events>>
  /\ UNCHANGED state_vars
  /\ UNCHANGED hist_vars

\* analyze, lines 227-233, and get_unmapped_scans
GetUnmappedScans(ok) ==
  /\ pc = "get_unmapped_scans"
  /\ Event(~ok)
  /\ IF ok
     THEN /\ unmapped_scans' =
               [message |-> UnmappedMessage,
                scans   |-> [i \in DOMAIN get_codelocations_unmapped.items |->
                               _copy_common_attributes(get_codelocations_unmapped.items[i], <<>>)]]
          /\ pc' = "for_project"
          /\ pidx' = 1
          /\ exc' = exc
     ELSE /\ pc' = "exit"
          /\ exc' = "fetch"
          /\ UNCHANGED <<unmapped_scans, pidx>>
  /\ UNCHANGED <<hub, run, mode, other_issues, suspect_projects, suspect_versions,
                 reviewed_projects, reviewed_versions, file, vidx>>
  /\ unmappedCalls' = unmappedCalls + 1
  /\ UNCHANGED <<handled, handledAt, writeFailed, start, analysed, classified,
                 skippedV, failedP, failedS, prev, signals>>

\* (mutant) the loop does not consult reviewed_projects
ForProject_NoSkip ==
  /\ pc = "for_project"
  /\ IF pidx > Len(get_projects.items)
     THEN /\ pc' = "_write_results"
          /\ UNCHANGED <<pidx, analysed>>
     ELSE /\ pc' = "get_project_versions"
          /\ analysed' = analysed \cup {project.name}
          /\ pidx' = pidx
  /\ UNCHANGED <<hub, run, mode, exc, file, vidx, events>>
  /\ UNCHANGED state_vars
  /\ UNCHANGED <<handled, handledAt, writeFailed, start, classified, skippedV,
                 failedP, failedS, prev, unmappedCalls, signals>>

\* analyze, lines 235-237: the head of the loop over projects
ForProject ==
  /\ pc = "for_project"
  /\ IF pidx > Len(get_projects.items)
     THEN /\ pc' = "_write_results"
          /\ UNCHANGED <<pidx, analysed>>
     ELSE IF project.name \notin reviewed_projects
     THEN /\ pc' = "get_project_versions"
          /\ analysed' = analysed \cup {project.name}
          /\ pidx' = pidx
     ELSE /\ pc' = "for_project"
          /\ pidx' = pidx + 1
          /\ UNCHANGED analysed
  /\ UNCHANGED <<hub, run, mode, exc, file, vidx, events>>
  /\ UNCHANGED state_vars
  /\ UNCHANGED <<handled, handledAt, writeFailed, start, classified, skippedV,
                 failedP, failedS, prev, unmappedCalls, signals>>

\* (mutant) the except branch records the project as reviewed
VersionsFetchRaised_MarksReviewed ==
  /\ pc' = "for_project"
  /\ pidx' = pidx + 1
  /\ failedP' = failedP \cup {project.name}
  /\ reviewed_projects' = reviewed_projects \cup {project.name}
  /\ UNCHANGED <<other_issues, suspect_projects, suspect_versions, unmapped_scans,
                 reviewed_versions>>

\* analyze_project, lines 136-137: the except branch, then back in analyze
VersionsFetchRaised ==
  /\ pc' = "for_project"
  /\ pidx' = pidx + 1
  /\ failedP' = failedP \cup {project.name}
  /\ UNCHANGED state_vars

\* analyze_project, lines 134-140: the versions of the project are fetched
GetProjectVersions(ok) ==
  /\ pc = "get_project_versions"
  /\ Event(~ok)
  /\ IF ok
     THEN pc' = "classify_project" /\ UNCHANGED <<pidx, failedP>> /\ UNCHANGED state_vars
     ELSE VersionsFetchRaised
  /\ UNCHANGED <<hub, run, mode, exc, file, vidx>>
  /\ UNCHANGED <<handled, handledAt, writeFailed, start, analysed, classified,
                 skippedV, failedS, prev, unmappedCalls, signals>>

\* (mutant) the branch of lines 151-154 is missing
ProjectFinding_IgnoresEmpty(proj, versions) ==
  LET num_versions == Len(versions)
      project_info == _copy_common_attributes(proj, <<>>)
  IN  IF num_versions > max_versions_per_project
      THEN <<[message |-> ManyVersionsMessage(proj.name, versions)] @@ project_info>>
      ELSE <<>>

\* (mutant) line 155 with >= in place of >
ProjectFinding_OffByOne(proj, versions) ==
  LET num_versions == Len(versions)
      project_info == _copy_common_attributes(proj, <<>>)
  IN  IF num_versions = 0
      THEN <<[message |-> ZeroVersionsMessage(proj.name)] @@ project_info>>
      ELSE IF num_versions >= max_versions_per_project
      THEN <<[message |-> ManyVersionsMessage(proj.name, versions)] @@ project_info>>
      ELSE <<>>

\* analyze_project, lines 142-178: the project classifier
\* (the findings appended, as a sequence of zero or one element)
ProjectFinding(proj, versions) ==
  LET num_versions == Len(versions)
      project_info == _copy_common_attributes(proj, <<>>)
  IN  IF num_versions = 0
      THEN <<[message |-> ZeroVersionsMessage(proj.name)] @@ project_info>>
      ELSE IF num_versions > max_versions_per_project
      THEN <<[message |-> ManyVersionsMessage(proj.name, versions)] @@ project_info>>
      ELSE <<>>

\* (mutant) the finding is assigned to the list instead of appended
ClassifyProject_Overwrites ==
  /\ pc = "classify_project"
  /\ suspect_projects' = ProjectFinding(project, version_objs)
  /\ pc' = "for_version"
  /\ vidx' = 1
  /\ UNCHANGED <<hub, run, mode, exc, other_issues, suspect_versions, unmapped_scans,
                 reviewed_projects, reviewed_versions, file, pidx, events>>
  /\ UNCHANGED hist_vars

ClassifyProject ==
  /\ pc = "classify_project"
  /\ suspect_projects' = suspect_projects \o ProjectFinding(project, version_objs)
  /\ pc' = "for_version"
  /\ vidx' = 1
  /\ UNCHANGED <<hub, run, mode, exc, other_issues, suspect_versions, unmapped_scans,
                 reviewed_projects, reviewed_versions, file, pidx, events>>
  /\ UNCHANGED hist_vars

\* (mutant) the loop over versions does not consult reviewed_versions
ForVersion_NoSkip ==
  /\ pc = "for_version"
  /\ IF vidx > Len(version_objs)
     THEN /\ reviewed_projects' = reviewed_projects \cup {project.name}
          /\ pc' = "for_project"
          /\ pidx' = pidx + 1
          /\ vidx' = 0
     ELSE /\ pc' = "get_version_codelocations"
          /\ UNCHANGED <<reviewed_projects, pidx, vidx>>
  /\ UNCHANGED <<hub, run, mode, exc, other_issues, suspect_projects, suspect_versions,
                 unmapped_scans, reviewed_versions, file, events>>
  /\ UNCHANGED <<handled, handledAt, writeFailed, start, analysed, classified, skippedV,
                 failedP, failedS, prev, unmappedCalls, signals>>

\* analyze_project, lines 180-185: the head of the loop over versions, and
\* the ledger entry of the project once the loop is over
ForVersion ==
  /\ pc = "for_version"
  /\ IF vidx > Len(version_objs)
     THEN /\ reviewed_projects' = reviewed_projects \cup {project.name}
          /\ pc' = "for_project"
          /\ pidx' = pidx + 1
          /\ vidx' = 0
          /\ UNCHANGED skippedV
     ELSE IF version_key(project.name, version.versionName) \notin reviewed_versions
     THEN /\ pc' = "get_version_codelocations"
          /\ UNCHANGED <<reviewed_projects, pidx, vidx, skippedV>>
     ELSE /\ pc' = "for_version"
          /\ vidx' = vidx + 1
          /\ skippedV' = skippedV \cup {<<project.name, version.versionName>>}
          /\ UNCHANGED <<reviewed_projects, pidx>>
  /\ UNCHANGED <<hub, run, mode, exc, other_issues, suspect_projects, suspect_versions,
                 unmapped_scans, reviewed_versions, file, events>>
  /\ UNCHANGED <<handled, handledAt, writeFailed, start, analysed, classified,
                 failedP, failedS, prev, unmappedCalls, signals>>

\* (mutant) line 123 moved out of the else branch: the key is added although
\* the fetch raised
ScansFetchRaised_AddsKey ==
  /\ pc' = "for_version"
  /\ vidx' = vidx + 1
  /\ failedS' = failedS \cup {<<project.name, version.versionName>>}
  /\ reviewed_versions' = reviewed_versions \cup {version_key(project.name, version.versionName)}
  /\ UNCHANGED <<other_issues, suspect_projects, suspect_versions, unmapped_scans,
                 reviewed_projects>>

\* analyze_version, lines 80-82: the except branch, then back in the loop
ScansFetchRaised ==
  /\ pc' = "for_version"
  /\ vidx' = vidx + 1
  /\ failedS' = failedS \cup {<<project.name, version.versionName>>}
  /\ UNCHANGED state_vars

\* analyze_version, lines 78-85: the scans of the version are fetched
GetVersionCodelocations(ok) ==
  /\ pc = "get_version_codelocations"
  /\ Event(~ok)
  /\ IF ok
     THEN pc' = "classify_version" /\ UNCHANGED <<vidx, failedS>> /\ UNCHANGED state_vars
     ELSE ScansFetchRaised
  /\ UNCHANGED <<hub, run, mode, exc, file, pidx>>
  /\ UNCHANGED <<handled, handledAt, writeFailed, start, analysed, classified,
                 skippedV, failedP, prev, unmappedCalls, signals>>

\* (mutant) line 103 with >= in place of >
VersionFinding_OffByOne(project_name, ver, scans) ==
  LET version_name == ver.versionName
      num_scans    == Len(scans)
      version_info == _copy_common_attributes(ver, [project_name |-> project_name])
      scan_info(s) == _copy_common_attributes(s, [project_name |-> project_name,
                                                  version_name |-> version_name])
      signature    == {i \in DOMAIN scans : endswith(scans[i].name, "scan")}
      bom          == {i \in DOMAIN scans : endswith(scans[i].name, "bom")}
      pick(idx)    == LET RECURSIVE from(_)
                          from(i) == IF i > num_scans THEN <<>>
                                     ELSE (IF i \in idx THEN <<scan_info(scans[i])>> ELSE <<>>)
                                          \o from(i + 1)
                      IN  from(1)
  IN  IF num_scans = 0
      THEN <<[message |-> ZeroScansMessage(project_name, version_name)] @@ version_info>>
      ELSE IF num_scans >= max_scans_per_version
      THEN <<[message |-> ManyScansMessage(project_name, version_name, num_scans),
              signature_scan_info |-> pick(signature),
              bom_scan_info |-> pick(bom)] @@ version_info>>
      ELSE <<>>

\* (mutant) line 108 with "not endswith('scan')" in place of endswith('bom')
VersionFinding_BomCatchAll(project_name, ver, scans) ==
  LET version_name == ver.versionName
      num_scans    == Len(scans)
      version_info == _copy_common_attributes(ver, [project_name |-> project_name])
      scan_info(s) == _copy_common_attributes(s, [project_name |-> project_name,
                                                  version_name |-> version_name])
      signature    == {i \in DOMAIN scans : endswith(scans[i].name, "scan")}
      bom          == {i \in DOMAIN scans : ~endswith(scans[i].name, "scan")}
      pick(idx)    == LET RECURSIVE from(_)
                          from(i) == IF i > num_scans THEN <<>>
                                     ELSE (IF i \in idx THEN <<scan_info(scans[i])>> ELSE <<>>)
                                          \o from(i + 1)
                      IN  from(1)
  IN  IF num_scans = 0
      THEN <<[message |-> ZeroScansMessage(project_name, version_name)] @@ version_info>>
      ELSE IF num_scans > max_scans_per_version
      THEN <<[message |-> ManyScansMessage(project_name, version_name, num_scans),
              signature_scan_info |-> pick(signature),
              bom_scan_info |-> pick(bom)] @@ version_info>>
      ELSE <<>>

\* analyze_version, lines 87-121: the version classifier
\* (the findings appended, as a sequence of zero or one element)
VersionFinding(project_name, ver, scans) ==
  LET version_name == ver.versionName
      num_scans    == Len(scans)
      version_info == _copy_common_attributes(ver, [project_name |-> project_name])
      scan_info(s) == _copy_common_attributes(s, [project_name |-> project_name,
                                                  version_name |-> version_name])
      signature    == {i \in DOMAIN scans : endswith(scans[i].name, "scan")}
      bom          == {i \in DOMAIN scans : endswith(scans[i].name, "bom")}
      pick(idx)    == LET RECURSIVE from(_)
                          from(i) == IF i > num_scans THEN <<>>
                                     ELSE (IF i \in idx THEN <<scan_info(scans[i])>> ELSE <<>>)
                                          \o from(i + 1)
                      IN  from(1)
  IN  IF num_scans = 0
      THEN <<[message |-> ZeroScansMessage(project_name, version_name)] @@ version_info>>
      ELSE IF num_scans > max_scans_per_version
      THEN <<[message |-> ManyScansMessage(project_name, version_name, num_scans),
              signature_scan_info |-> pick(signature),
              bom_scan_info |-> pick(bom)] @@ version_info>>
      ELSE <<>>

ClassifyVersion ==
  /\ pc = "classify_version"
  /\ suspect_versions' = suspect_versions \o VersionFinding(project.name, version, scan_objs)
  /\ classified' = classified \cup {<<project.name, version.versionName>>}
  /\ pc' = "add_version_key"
  /\ UNCHANGED <<hub, run, mode, exc, other_issues, suspect_projects, unmapped_scans,
                 reviewed_projects, reviewed_versions, file, pidx, vidx, events>>
  /\ UNCHANGED <<handled, handledAt, writeFailed, start, analysed, skippedV,
                 failedP, failedS, prev, unmappedCalls, signals>>

\* analyze_version, line 123
AddVersionKey ==
  /\ pc = "add_version_key"
  /\ reviewed_versions' = reviewed_versions \cup {version_key(project.name, version.versionName)}
  /\ pc' = "for_version"
  /\ vidx' = vidx + 1
  /\ UNCHANGED <<hub, run, mode, exc, other_issues, suspect_projects, suspect_versions,
                 unmapped_scans, reviewed_projects, file, pidx, events>>
  /\ UNCHANGED hist_vars

\* analyze, line 239: the checkpoint on normal completion
WriteResults(outcome) ==
  /\ pc = "_write_results"
  /\ Event(outcome # "ok")
  /\ _write_results(outcome)
  /\ pc' = "exit"
  /\ exc' = IF outcome = "ok" THEN "none" ELSE "IOError"
  /\ writeFailed' = (writeFailed \/ outcome # "ok")
  /\ UNCHANGED <<hub, run, mode, pidx, vidx>>
  /\ UNCHANGED state_vars
  /\ UNCHANGED <<handled, handledAt, start, analysed, classified, skippedV,
                 failedP, failedS, prev, unmappedCalls, signals>>

\* (mutant) the handler raises without writing the checkpoint
Signal_RaisesFirst(outcome) ==
  /\ Running
  /\ LET n == IF outcome = "ok" THEN 1 ELSE 2
     IN  events + n <= MaxEvents /\ events' = events + n
  /\ file' = file
  /\ handled' = TRUE
  /\ handledAt' = pc
  /\ writeFailed' = (writeFailed \/ outcome # "ok")
  /\ CASE pc = "get_project_versions" ->
            /\ VersionsFetchRaised
            /\ UNCHANGED <<exc, vidx, failedS>>
       [] pc = "get_version_codelocations" ->
            /\ ScansFetchRaised
            /\ UNCHANGED <<exc, pidx, failedP>>
       [] OTHER ->
            /\ pc' = "exit"
            /\ exc' = IF outcome = "ok" THEN "Interruped" ELSE "IOError"
            /\ UNCHANGED <<pidx, vidx, failedP, failedS>>
            /\ UNCHANGED state_vars
  /\ UNCHANGED <<hub, run, mode>>
  /\ signals' = signals + 1
  /\ UNCHANGED <<start, analysed, classified, skippedV, prev, unmappedCalls>>

\* SIGINT / SIGTERM: _signal_handler runs on top of the main path and raises
\* (OSError, or what _write_results raised) at the interrupted instruction.
\* Inside the try of lines 78-79 or 134-135 the bare except catches it.
Signal(outcome) ==
  /\ Running
  /\ LET n == IF outcome = "ok" THEN 1 ELSE 2
     IN  events + n <= MaxEvents /\ events' = events + n
  /\ _write_results(outcome)
  /\ handled' = TRUE
  /\ handledAt' = pc
  /\ writeFailed' = (writeFailed \/ outcome # "ok")
  /\ CASE pc = "get_project_versions" ->
            /\ VersionsFetchRaised
            /\ UNCHANGED <<exc, vidx, failedS>>
       [] pc = "get_version_codelocations" ->
            /\ ScansFetchRaised
            /\ UNCHANGED <<exc, pidx, failedP>>
       [] OTHER ->
            /\ pc' = "exit"
            /\ exc' = IF outcome = "ok" THEN "Interruped" ELSE "IOError"
            /\ UNCHANGED <<pidx, vidx, failedP, failedS>>
            /\ UNCHANGED state_vars
  /\ UNCHANGED <<hub, run, mode>>
  /\ signals' = signals + 1
  /\ UNCHANGED <<start, analysed, classified, skippedV, prev, unmappedCalls>>

Next ==
  \/ \E m \in {"new", "resume"} : Construct(m)
  \/ \E ok \in BOOLEAN, elapsed \in ElapsedValues \cup {0} : GetProjects(ok, elapsed)
  \/ CheckUnmapped
  \/ \E ok \in BOOLEAN : GetUnmappedScans(ok)
  \/ ForProject
  \/ \E ok \in BOOLEAN : GetProjectVersions(ok)
  \/ ClassifyProject
  \/ ForVersion
  \/ \E ok \in BOOLEAN : GetVersionCodelocations(ok)
  \/ ClassifyVersion
  \/ AddVersionKey
  \/ \E outcome \in WriteOutcomes : WriteResults(outcome)
  \/ \E outcome \in WriteOutcomes : Signal(outcome)

Spec == Init /\ [][Next]_vars

(***************************************************************************)
(* The checkpoint on its own: an engine holding any AnalysisState out of   *)
(* bounded sets of values saves it, and a resume engine loads the file.    *)
(***************************************************************************)
SavedIssues == {<<>>, <<SlowListingMessage(61, max_time_to_retrieve_projects)>>}

SavedUnmapped ==
  {EmptyDict,
   [message |-> UnmappedMessage, scans |-> <<_copy_common_attributes(ScanObj("orphan-scan"), <<>>)>>]}

SavedProjectFindings ==
  {<<>>,
   ProjectFinding(ProjectObj("a:b"), <<>>) \o ProjectFinding(ProjectObj("a:b"), <<>>)}

SavedVersionFindings ==
  {<<>>, VersionFinding("a", VersionObj("a", "b:c", "RELEASED"), ManyScans)}

SavedProjects == {"a", "a:b", "alpha"}

SavedKeys == {version_key("a", "b:c"), version_key("alpha", "1.0"), version_key("alpha", "2.0")}

InitRT ==
  /\ hub \in Hubs
  /\ run = 1
  /\ mode = "new"
  /\ pc = "_write_results"
  /\ exc = "none"
  /\ other_issues \in SavedIssues
  /\ suspect_projects \in SavedProjectFindings
  /\ suspect_versions \in SavedVersionFindings
  /\ unmapped_scans \in SavedUnmapped
  /\ reviewed_projects \in SUBSET SavedProjects
  /\ reviewed_versions \in SUBSET SavedKeys
  /\ file = NoFile
  /\ pidx = Len(get_projects.items) + 1
  /\ vidx = 0
  /\ events = 0
  /\ handled = FALSE
  /\ handledAt = "none"
  /\ writeFailed = FALSE
  /\ start = EmptyState
  /\ analysed = {}
  /\ classified = {}
  /\ skippedV = {}
  /\ failedP = {}
  /\ failedS = {}
  /\ prev = NoHistory
  /\ unmappedCalls = 0
  /\ signals = 0

NextRT ==
  \/ \E outcome \in WriteOutcomes : WriteResults(outcome)
  \/ Construct("resume")

SpecRT == InitRT /\ [][NextRT]_vars

(***************************************************************************)
(* Vocabulary of the properties.                                           *)
(***************************************************************************)
ProjectNames == {get_projects.items[i].name : i \in DOMAIN get_projects.items}

ProjectNamed(n) == CHOOSE p \in Range(get_projects.items) : p.name = n

VersionsOf(n) == Items(get_project_versions(ProjectNamed(n)))

\* <<project name, version name>> of every version listed for the project
VersionIdsOf(n) == {<<n, VersionsOf(n)[j].versionName>> : j \in DOMAIN VersionsOf(n)}

\* the elements a list gained since it was old
Gained(old, new) == {new[i] : i \in (DOMAIN new) \ (DOMAIN old)}

\* the version the main path is at
CurrentVersionId == <<project.name, version.versionName>>

Completed == pc = "exit" /\ exc = "none"

VersionObjOf(id) == CHOOSE v \in Range(VersionsOf(id[1])) : v.versionName = id[2]

\* what the version classifier records for a version whose scans were fetched
FindingFor(id) ==
  VersionFinding(id[1], VersionObjOf(id), Items(get_version_codelocations(id[1], VersionObjOf(id))))

(***************************************************************************)
(* C1: once _signal_handler has run, the run has stopped: the main path    *)
(* makes no further inventory call, runs no classifier and changes neither *)
(* AnalysisState nor the checkpoint.  Stated as: in every state after the  *)
(* handler, the process has exited.                                        *)
(***************************************************************************)
C1_HandlerStopsRun == handled => pc = "exit"

(***************************************************************************)
(* C4: a version whose scans fetch raised is retried by the following      *)
(* resume run: when a resume run in which no fetch raised completes, the   *)
(* version classifier has run on every version whose scans fetch raised in *)
(* the run before (a run that ended with a checkpoint of its state).       *)
(***************************************************************************)
C4_FailedScansRetried ==
  (/\ mode = "resume"
   /\ Completed
   /\ failedP = {} /\ failedS = {}
   /\ prev.status \in {"COMPLETED", "INTERRUPTED"})
  => prev.failedS \subseteq classified

(***************************************************************************)
(* C6: no failure of an inventory call aborts the run: the process never   *)
(* ends on the exception of an inventory call.                             *)
(***************************************************************************)
C6_InventoryFailureNonFatal == ~(pc = "exit" /\ exc = "fetch")

(***************************************************************************)
(* C7: a failed checkpoint write is fatal: in every state after a write    *)
(* has failed in this run, the process has exited on that error.           *)
(***************************************************************************)
C7_WriteFailureAborts == writeFailed => (pc = "exit" /\ exc = "IOError")

(***************************************************************************)
(* C9: a project added to reviewed_projects in this run had every listed   *)
(* version either run through the version classifier or skipped because    *)
(* its key was in reviewed_versions, and its versions fetch did not raise. *)
(***************************************************************************)
C9_ProjectAddedAfterAllVersions ==
  \A n \in reviewed_projects \ start.reviewed_projects :
    /\ n \notin failedP
    /\ VersionIdsOf(n) \subseteq (classified \cup skippedV)

(***************************************************************************)
(* C5: when the versions fetch of project P raises, the step leaves every  *)
(* field of AnalysisState as it was and the main path moves on to the next *)
(* project of the listing; for the rest of the run P is not in             *)
(* reviewed_projects (unless it was loaded) and suspect_projects gained no *)
(* finding for P.                                                          *)
(***************************************************************************)
C5_VersionsFetchFailureSkipsProject ==
  /\ [][(pc = "get_project_versions" /\ failedP' # failedP)
          => (/\ UNCHANGED state_vars
              /\ pc' = "for_project"
              /\ pidx' = pidx + 1)]_vars
  /\ [](\A n \in failedP :
          /\ n \notin reviewed_projects \ start.reviewed_projects
          /\ \A f \in Gained(start.suspect_projects, suspect_projects) : f.name # n)

\* a later project's versions were fetched after an earlier fetch raised
C5_Witness ==
  /\ failedP # {}
  /\ pc = "classify_project"
  /\ project.name \notin failedP

(***************************************************************************)
(* C8: every key reviewed_versions gained in this run is the key of a      *)
(* version whose scans fetch returned and whose classification is recorded *)
(* (its SuspectVersion finding, if any, is in suspect_versions); and every *)
(* version the classifier ran on has its key in reviewed_versions, finding *)
(* or not, as soon as the main path is past line 123.                      *)
(***************************************************************************)
C8_KeyAfterClassification ==
  /\ \A k \in reviewed_versions \ start.reviewed_versions :
       \E id \in classified :
         /\ k = version_key(id[1], id[2])
         /\ id \notin failedS
         /\ Range(FindingFor(id)) \subseteq Gained(start.suspect_versions, suspect_versions)
  /\ \A id \in classified :
       \/ version_key(id[1], id[2]) \in reviewed_versions
       \/ /\ \/ pc = "add_version_key"
             \/ pc = "exit" /\ handledAt = "add_version_key"
          /\ id = CurrentVersionId

\* keys were added for a version with a finding and for one without
C8_Witness ==
  \E id1, id2 \in classified :
    /\ FindingFor(id1) = <<>>
    /\ FindingFor(id2) # <<>>
    /\ {version_key(id1[1], id1[2]), version_key(id2[1], id2[2])} \subseteq reviewed_versions

(***************************************************************************)
(* C10: on every step of a run, reviewed_projects and reviewed_versions    *)
(* are supersets of their previous values, and other_issues,               *)
(* suspect_projects and suspect_versions keep their previous content as a  *)
(* prefix.                                                                 *)
(***************************************************************************)
C10_StateOnlyGrows ==
  [][run' = run =>
       /\ reviewed_projects \subseteq reviewed_projects'
       /\ reviewed_versions \subseteq reviewed_versions'
       /\ IsPrefix(other_issues, other_issues')
       /\ IsPrefix(suspect_projects, suspect_projects')
       /\ IsPrefix(suspect_versions, suspect_versions')]_vars

\* every list and both sets have grown in this run
C10_Witness ==
  /\ Len(other_issues) > Len(start.other_issues)
  /\ Len(suspect_projects) > 1
  /\ Len(suspect_versions) > Len(start.suspect_versions)
  /\ reviewed_projects # start.reviewed_projects
  /\ reviewed_versions # start.reviewed_versions

C3_ResumeChangesNothing ==
  (mode = "resume" /\ prev.status = "COMPLETED") => AnalysisState = prev.state

(***************************************************************************)
(* C3 as amended: a resume run after a completed run starts from the state *)
(* that run left, skips every project in its reviewed_projects, appends no *)
(* finding for such a project, keeps unmapped_scans, and only adds to the  *)
(* ledger the entries of the projects it retries (those whose versions     *)
(* fetch raised before); other_issues gains at most the slow-listing       *)
(* message of the resume run.                                              *)
(***************************************************************************)
C3_ResumeSkipsReviewed ==
  (mode = "resume" /\ prev.status = "COMPLETED") =>
    /\ start = prev.state
    /\ analysed \cap prev.state.reviewed_projects = {}
    /\ unmapped_scans = prev.state.unmapped_scans
    /\ IsPrefix(prev.state.suspect_projects, suspect_projects)
    /\ IsPrefix(prev.state.suspect_versions, suspect_versions)
    /\ IsPrefix(prev.state.other_issues, other_issues)
    /\ Len(other_issues) <= Len(prev.state.other_issues) + 1
    /\ \A f \in Gained(prev.state.suspect_projects, suspect_projects) :
         f.name \in analysed
    /\ \A f \in Gained(prev.state.suspect_versions, suspect_versions) :
         f.project_name \in analysed
    /\ prev.state.reviewed_projects \subseteq reviewed_projects
    /\ (reviewed_projects \ prev.state.reviewed_projects) \subseteq analysed
    /\ prev.state.reviewed_versions \subseteq reviewed_versions
    /\ \A k \in reviewed_versions \ prev.state.reviewed_versions :
         \E id \in classified : id[1] \in analysed /\ k = version_key(id[1], id[2])

\* the resume run has completed, having skipped a reviewed project and
\* retried another
C3_Witness ==
  /\ mode = "resume" /\ prev.status = "COMPLETED"
  /\ Completed
  /\ prev.state.reviewed_projects # {}
  /\ analysed # {}
  /\ reviewed_projects # prev.state.reviewed_projects

(***************************************************************************)
(* C11: a run only processes what the ledger does not hold.  The main path *)
(* is inside analyze_project for P (fetch or classifier) only while P is   *)
(* not in reviewed_projects, and inside analyze_version for V only while   *)
(* the key of V is not in reviewed_versions.  A new engine starts with     *)
(* every field of AnalysisState empty; a resume engine starts with the     *)
(* content of the checkpoint file.                                         *)
(***************************************************************************)
C11_OnlyUnreviewedProcessed ==
  /\ [](/\ pc \in {"get_project_versions", "classify_project"} =>
            project.name \notin reviewed_projects
        /\ pc \in {"get_version_codelocations", "classify_version"} =>
            /\ project.name \notin reviewed_projects
            /\ version_key(project.name, version.versionName) \notin reviewed_versions)
  /\ [][run' # run =>
          /\ mode' = "new" =>
               /\ other_issues' = <<>> /\ suspect_projects' = <<>> /\ suspect_versions' = <<>>
               /\ unmapped_scans' = EmptyDict
               /\ reviewed_projects' = {} /\ reviewed_versions' = {}
          /\ (mode' = "resume" /\ pc' # "exit") =>
               /\ file.kind = "json"
               /\ other_issues' = file.other_issues
               /\ suspect_projects' = file.suspect_projects
               /\ suspect_versions' = file.suspect_versions
               /\ unmapped_scans' = file.unmapped_scans
               /\ reviewed_projects' = {file.reviewed_projects[i] : i \in DOMAIN file.reviewed_projects}
               /\ reviewed_versions' = {file.reviewed_versions[i] : i \in DOMAIN file.reviewed_versions}]_vars

\* a resume run that loaded a ledger has skipped a version of a project it
\* is processing and is classifying another
C11_Witness ==
  /\ mode = "resume"
  /\ start.reviewed_versions # {}
  /\ skippedV # {}
  /\ pc = "classify_version"

\* number of scans the hub lists for a version
NumScans(id) == Len(Items(hub.scans[id]))

\* the findings suspect_versions gained in this run for a version
VersionFindingsGained(id) ==
  {i \in (DOMAIN suspect_versions) \ (DOMAIN start.suspect_versions) :
     /\ suspect_versions[i].project_name = id[1]
     /\ suspect_versions[i].versionName = id[2]}

(***************************************************************************)
(* C12: the step of the version classifier on a version with n fetched     *)
(* scans leaves suspect_versions as it is when 1 <= n <=                   *)
(* max_scans_per_version, and appends exactly one finding, for that        *)
(* version, when n > max_scans_per_version.                                *)
(***************************************************************************)
C12_VersionBoundary ==
  [][(pc = "classify_version" /\ pc' = "add_version_key") =>
       LET n == NumScans(CurrentVersionId)
       IN  /\ (1 <= n /\ n <= max_scans_per_version) => suspect_versions' = suspect_versions
           /\ n > max_scans_per_version =>
                /\ Len(suspect_versions') = Len(suspect_versions) + 1
                /\ IsPrefix(suspect_versions, suspect_versions')
                /\ suspect_versions'[Len(suspect_versions')].project_name = project.name
                /\ suspect_versions'[Len(suspect_versions')].versionName = version.versionName]_vars

\* the classifier has run on a version with exactly max_scans_per_version
\* scans (no finding) and on one with max_scans_per_version + 1 (one finding)
C12_Witness ==
  \E id1, id2 \in classified :
    /\ NumScans(id1) = max_scans_per_version
    /\ NumScans(id2) = max_scans_per_version + 1
    /\ VersionFindingsGained(id1) = {}
    /\ Cardinality(VersionFindingsGained(id2)) = 1
    /\ pc = "for_version"

\* number of versions the hub lists for a project
NumVersions(n) == Len(Items(hub.versions[n]))

\* the findings suspect_projects gained in this run for a project
ProjectFindingsGained(n) ==
  {i \in (DOMAIN suspect_projects) \ (DOMAIN start.suspect_projects) :
     suspect_projects[i].name = n}

(***************************************************************************)
(* C13: the step of the project classifier on a project with n fetched     *)
(* versions leaves suspect_projects as it is when 1 <= n <=                *)
(* max_versions_per_project, and appends exactly one finding, for that     *)
(* project, when n > max_versions_per_project.                             *)
(***************************************************************************)
C13_ProjectBoundary ==
  [][(pc = "classify_project" /\ pc' = "for_version") =>
       LET n == NumVersions(project.name)
       IN  /\ (1 <= n /\ n <= max_versions_per_project) => suspect_projects' = suspect_projects
           /\ n > max_versions_per_project =>
                /\ Len(suspect_projects') = Len(suspect_projects) + 1
                /\ IsPrefix(suspect_projects, suspect_projects')
                /\ suspect_projects'[Len(suspect_projects')].name = project.name]_vars

\* the classifier has run on a project with max_versions_per_project + 1
\* versions and the run went on to its versions with one finding more
C13_Witness ==
  /\ pc = "for_version"
  /\ NumVersions(project.name) = max_versions_per_project + 1
  /\ Cardinality(ProjectFindingsGained(project.name)) = 1

\* the names of a list of scans or of scan descriptions, in order
ScanNames(scans) == [i \in DOMAIN scans |-> scans[i].name]

\* the scans whose name ends with the suffix, in the order of the listing
ScansEnding(scans, suffix) == SelectSeq(scans, LAMBDA s : endswith(s.name, suffix))

(***************************************************************************)
(* C14: in every finding of a version over the scan threshold,             *)
(* signature_scan_info describes exactly the listed scans whose name ends  *)
(* with "scan" and bom_scan_info exactly those whose name ends with "bom"; *)
(* no scan is in both, and a scan with neither suffix is in neither.       *)
(***************************************************************************)
C14_ScanPartition ==
  \A i \in DOMAIN suspect_versions :
    LET f == suspect_versions[i]
    IN  "signature_scan_info" \in DOMAIN f =>
          LET scans == Items(hub.scans[<<f.project_name, f.versionName>>])
              sig   == ScanNames(f.signature_scan_info)
              bom   == ScanNames(f.bom_scan_info)
          IN  /\ Len(scans) > max_scans_per_version
              /\ sig = ScanNames(ScansEnding(scans, "scan"))
              /\ bom = ScanNames(ScansEnding(scans, "bom"))
              /\ Range(sig) \cap Range(bom) = {}
              /\ \A j \in DOMAIN scans :
                   (~endswith(scans[j].name, "scan") /\ ~endswith(scans[j].name, "bom"))
                     => scans[j].name \notin (Range(sig) \cup Range(bom))
              /\ \A j \in DOMAIN f.signature_scan_info :
                   f.signature_scan_info[j].url = "/codelocations/" \o sig[j]
              /\ \A j \in DOMAIN f.bom_scan_info :
                   f.bom_scan_info[j].url = "/codelocations/" \o bom[j]

\* the version with the scans foo-scan, foo-bom and other is flagged: three
\* scans counted, one in each bucket, other in neither
C14_Witness ==
  \E i \in DOMAIN suspect_versions :
    LET f == suspect_versions[i]
    IN  /\ f.project_name = "alpha" /\ f.versionName = "1.0"
        /\ NumScans(<<"alpha", "1.0">>) = max_scans_per_version + 1
        /\ ScanNames(f.signature_scan_info) = <<"foo-scan">>
        /\ ScanNames(f.bom_scan_info) = <<"foo-bom">>

(***************************************************************************)
(* C15: the step of the project classifier on a project with no version    *)
(* (an empty list, or a result without items) appends exactly one finding, *)
(* for that project, whose message asks whether it should be removed, and  *)
(* the next step of the main path adds the project to reviewed_projects;   *)
(* the step of the version classifier on a version with no scan appends    *)
(* exactly one finding, for that version, with the same question and       *)
(* without signature_scan_info and bom_scan_info.                          *)
(***************************************************************************)
C15_ZeroChildren ==
  /\ [][(pc = "classify_project" /\ pc' = "for_version" /\ NumVersions(project.name) = 0) =>
          /\ Len(suspect_projects') = Len(suspect_projects) + 1
          /\ IsPrefix(suspect_projects, suspect_projects')
          /\ LET f == suspect_projects'[Len(suspect_projects')]
             IN  /\ f.name = project.name
                 /\ endswith(f.message, "has 0 versions. Should it be removed?")]_vars
  /\ [][(pc = "for_version" /\ NumVersions(project.name) = 0 /\ pc' \notin {"for_version", "exit"}) =>
          /\ reviewed_projects' = reviewed_projects \cup {project.name}
          /\ Cardinality(ProjectFindingsGained(project.name)) = 1]_vars
  /\ [][(pc = "classify_version" /\ pc' = "add_version_key" /\ NumScans(CurrentVersionId) = 0) =>
          /\ Len(suspect_versions') = Len(suspect_versions) + 1
          /\ IsPrefix(suspect_versions, suspect_versions')
          /\ LET f == suspect_versions'[Len(suspect_versions')]
             IN  /\ f.project_name = project.name
                 /\ f.versionName = version.versionName
                 /\ endswith(f.message, "has 0 scans. Should it be removed?")
                 /\ DOMAIN f \cap {"signature_scan_info", "bom_scan_info"} = {}]_vars

\* a project without versions is flagged once and in the ledger, and a
\* version whose scans result has no items is flagged once without breakdown
C15_Witness ==
  /\ \E n \in reviewed_projects :
       /\ NumVersions(n) = 0
       /\ Cardinality(ProjectFindingsGained(n)) = 1
  /\ \E id \in classified :
       /\ hub.scans[id] = NoItemsPage
       /\ \E i \in VersionFindingsGained(id) :
            "signature_scan_info" \notin DOMAIN suspect_versions[i]
       /\ Cardinality(VersionFindingsGained(id)) = 1

(***************************************************************************)
(* C16: in every run get_unmapped_scans is called at most once, and not at *)
(* all when the engine was constructed with a non-empty unmapped_scans;    *)
(* no step of a run changes an unmapped_scans that is set.                 *)
(***************************************************************************)
C16_UnmappedOnce ==
  /\ [](/\ unmappedCalls <= 1
        /\ start.unmapped_scans # EmptyDict => unmappedCalls = 0)
  /\ [][(run' = run /\ unmapped_scans # EmptyDict) => unmapped_scans' = unmapped_scans]_vars

\* a resume run that loaded a snapshot is in the loop over projects without
\* having called the listing
C16_Witness ==
  /\ mode = "resume"
  /\ start.unmapped_scans # EmptyDict
  /\ unmapped_scans = start.unmapped_scans
  /\ pc = "for_project"
  /\ unmappedCalls = 0

(***************************************************************************)
(* C17: the construction of a resume engine from the file a completed      *)
(* _write_results left restores the state that was saved: other_issues,    *)
(* unmapped_scans, suspect_projects and suspect_versions are equal, and    *)
(* reviewed_projects and reviewed_versions hold the same elements.         *)
(***************************************************************************)
C17_CheckpointRoundTrip ==
  [][(run' # run /\ pc = "exit" /\ exc = "none") =>
       /\ mode' = "resume"
       /\ pc' = "get_projects"
       /\ other_issues' = other_issues
       /\ unmapped_scans' = unmapped_scans
       /\ suspect_projects' = suspect_projects
       /\ suspect_versions' = suspect_versions
       /\ reviewed_projects' = reviewed_projects
       /\ reviewed_versions' = reviewed_versions]_vars

\* a state with findings and two entries in each ledger was loaded from a
\* file that lists the ledgers in some order
C17_Witness ==
  /\ mode = "resume"
  /\ pc = "get_projects"
  /\ file.kind = "json"
  /\ file.reviewed_projects = <<"alpha", "a:b">>
  /\ file.reviewed_versions = <<"a:b:c", "alpha:1.0">>
  /\ reviewed_projects = {"a:b", "alpha"}
  /\ reviewed_versions = {"alpha:1.0", "a:b:c"}
  /\ suspect_projects # <<>> /\ suspect_versions # <<>>
  /\ unmapped_scans # EmptyDict /\ other_issues # <<>>

\* the content of a checkpoint file is the state s
Holds(f, s) ==
  /\ f.kind = "json"
  /\ f.other_issues = s.other_issues
  /\ f.unmapped_scans = s.unmapped_scans
  /\ f.suspect_projects = s.suspect_projects
  /\ f.suspect_versions = s.suspect_versions
  /\ {f.reviewed_projects[i] : i \in DOMAIN f.reviewed_projects} = s.reviewed_projects
  /\ {f.reviewed_versions[i] : i \in DOMAIN f.reviewed_versions} = s.reviewed_versions
  /\ Len(f.reviewed_projects) = Cardinality(s.reviewed_projects)
  /\ Len(f.reviewed_versions) = Cardinality(s.reviewed_versions)

(***************************************************************************)
(* C18: a step of _signal_handler leaves every field of AnalysisState as   *)
(* it was; unless its write failed, the file it leaves holds the state in  *)
(* memory at the time of the signal; and a run that has ended on the       *)
(* handler's OSError has a checkpoint file that holds its final state.     *)
(***************************************************************************)
C18_HandlerOnlySerializes ==
  /\ [][signals' = signals + 1 =>
          /\ UNCHANGED state_vars
          /\ (~writeFailed' \/ exc' = "Interruped") => Holds(file', AnalysisState)]_vars
  /\ []((pc = "exit" /\ exc = "Interruped") => (handled /\ Holds(file, AnalysisState)))

\* the signal came between the append of a finding and line 123; the run
\* ended on the handler's OSError with that finding in the file
C18_Witness ==
  /\ pc = "exit" /\ exc = "Interruped"
  /\ handledAt = "add_version_key"
  /\ Len(suspect_versions) > Len(start.suspect_versions)
  /\ file.kind = "json"
  /\ file.suspect_versions = suspect_versions
  /\ version_key(project.name, version.versionName) \notin reviewed_versions

(***************************************************************************)
(* C19: over a new run followed by resume runs, with signals at any point, *)
(* suspect_projects holds at most one finding per project and              *)
(* suspect_versions at most one finding per (project, version).            *)
(***************************************************************************)
C19_NoDuplicateFindings ==
  /\ \A i, j \in DOMAIN suspect_projects :
       suspect_projects[i].name = suspect_projects[j].name => i = j
  /\ \A i, j \in DOMAIN suspect_versions :
       (/\ suspect_versions[i].project_name = suspect_versions[j].project_name
        /\ suspect_versions[i].versionName = suspect_versions[j].versionName) => i = j

\* <<project name, version name>> of every version the hub lists
AllVersionIds == UNION {VersionIdsOf(n) : n \in ProjectNames}

(***************************************************************************)
(* C20: the key of a version is the key of no other version: whenever the  *)
(* loop skips a version because its key is in reviewed_versions, no other  *)
(* (project name, version name) pair of the inventory has that key.        *)
(***************************************************************************)
C20_KeyIdentifiesVersion ==
  \A id \in skippedV :
    \A other \in AllVersionIds :
      version_key(other[1], other[2]) = version_key(id[1], id[2]) => other = id

====
